---- MODULE Spec2Model ----
(***************************************************************************)
(* OCTVol: reading (_open_vol), writing (write_vol) and cropping           *)
(* (crop_vol) of Heidelberg Engineering .vol files.                        *)
(*                                                                         *)
(* A file is a sequence of bytes 0..255 and offsets are counted from 0 as  *)
(* in the source.  All widths and offsets are the real ones (a 2048 byte   *)
(* header, 256 byte B-scan headers, 4 byte pixels).                        *)
(*                                                                         *)
(* Number formats.  int32 is little-endian two's complement.  float32,     *)
(* float64 and uint64 values are carried as their bit pattern (the 4 or 8  *)
(* bytes np.fromfile read and tofile writes back).  Where crop_vol         *)
(* calculates with float64 values the bit pattern is read as a fixed-point *)
(* count of quarter millimetres (F64Num / ToF64), not as IEEE-754, and     *)
(* the scan lines are axis parallel, so that atan, sin and cos take exact  *)
(* values; floating-point rounding is outside this model.                  *)
(***************************************************************************)
EXTENDS Integers, Sequences, FiniteSets, TLC

Min(a, b) == IF a <= b THEN a ELSE b
Max(a, b) == IF a >= b THEN a ELSE b

Zeros(n) == [i \in 1..n |-> 0]

\* A local variable: x is calculated first, as an assignment statement does,
\* and body is calculated with that value.
With(x, body(_)) == CHOOSE r \in {body(y) : y \in {x}} : TRUE

\* Size of the global header region: the SLO image starts here.
HeaderSize == 2048
\* Number of sectors of the thickness grid.
NumSectors == 9

(***************************************************************************)
(* Byte-level primitives                                                   *)
(***************************************************************************)

\* numpy itemsize of a dtype.
ItemSize(kind) ==
    CASE kind = "int32" -> 4
      [] kind = "float32" -> 4
      [] kind = "float64" -> 8
      [] kind = "uint64" -> 8
      [] OTHER -> 1

\* vf.read(n) at offset pos: the bytes that are there, fewer at the end of file.
Take(f, pos, n) ==
    IF pos >= Len(f) \/ n <= 0 THEN <<>>
    ELSE SubSeq(f, pos + 1, Min(pos + n, Len(f)))

\* int32 from 4 little-endian bytes.
I32(bs) ==
    bs[1] + 256 * bs[2] + 65536 * bs[3]
      + 16777216 * (IF bs[4] >= 128 THEN bs[4] - 256 ELSE bs[4])

\* tofile of an integer scalar of itemsize w (4 or 8): little-endian two's complement.
IntBytes(v, w) ==
    [k \in 1..w |->
        IF k <= 4 THEN (v \div (256 ^ (k - 1))) % 256
        ELSE IF v < 0 THEN 255 ELSE 0]

\* np.int32 * np.int32: the product wraps to 32 bits.
Mul32Bytes(x, y) ==
    LET t1 == x[1] * y[1]
        t2 == x[1] * y[2] + x[2] * y[1] + (t1 \div 256)
        t3 == x[1] * y[3] + x[2] * y[2] + x[3] * y[1] + (t2 \div 256)
        t4 == x[1] * y[4] + x[2] * y[3] + x[3] * y[2] + x[4] * y[1] + (t3 \div 256)
    IN  I32(<<t1 % 256, t2 % 256, t3 % 256, t4 % 256>>)
Mul32(a, b) == Mul32Bytes(IntBytes(a, 4), IntBytes(b, 4))

\* Sum and product of an expression that holds a Python int: numpy calculates
\* it in the platform's default integer.  Of 4 bytes, it wraps to 32 bits.  Of 8
\* bytes it does not wrap; the model's integers end at 2^31, so a value beyond
\* Huge is kept as Huge: an offset beyond the end of every file of the model.
Huge == 536870912
Clamp(a) == IF a > Huge THEN Huge ELSE IF a < 0 - Huge THEN 0 - Huge ELSE a
Abs(a) == IF a < 0 THEN 0 - a ELSE a
PAdd(a, b, w) ==
    IF w = 4
    THEN IF a > 0 /\ b > 0 /\ a > 2147483647 - b
         THEN (a - 2147483647 - 1) + (b - 2147483647 - 1)
         ELSE IF a < 0 /\ b < 0 /\ a < (0 - 2147483647 - 1) - b
         THEN (a + 2147483647 + 1) + (b + 2147483647 + 1)
         ELSE a + b
    ELSE Clamp(Clamp(a) + Clamp(b))
PMul(a, b, w) ==
    IF w = 4 THEN Mul32(a, b)
    ELSE IF a = 0 \/ b = 0 THEN 0
    ELSE IF Abs(Clamp(a)) > Huge \div Abs(Clamp(b))
    THEN (IF (a < 0) = (b < 0) THEN Huge ELSE 0 - Huge)
    ELSE a * b

\* The number a float64 bit pattern stands for (quarter millimetres, fixed point).
F64Num(bits) == I32(SubSeq(bits, 1, 4))
\* The float64 bit pattern of a number.
ToF64(n) == IntBytes(n, 8)

\* np.fromfile(vf, dtype, count) at offset pos: the whole items that are there,
\* at most count of them (a negative count reads to the end of the file).
fromfile(f, pos, kind, count) ==
    LET w == ItemSize(kind)
        avail == IF pos >= Len(f) THEN 0 ELSE (Len(f) - pos) \div w
        k == IF count < 0 THEN avail ELSE Min(count, avail)
    IN  [i \in 1..k |->
            IF kind = "int32" THEN I32(SubSeq(f, pos + (i - 1) * w + 1, pos + i * w))
            ELSE IF w = 1 THEN f[pos + i]
            ELSE SubSeq(f, pos + (i - 1) * w + 1, pos + i * w)]

\* str.rstrip("\0")
RECURSIVE rstrip(_)
rstrip(s) ==
    IF s = <<>> \/ s[Len(s)] # 0 THEN s
    ELSE rstrip(SubSeq(s, 1, Len(s) - 1))

\* numpy assignment of a 1-d value into a slot of n entries: the shapes must be
\* equal or the value has one entry, which is repeated (broadcasting).
CanBroadcast(a, n) == Len(a) = n \/ Len(a) = 1
Broadcast(a, n) == IF Len(a) = n THEN a ELSE [i \in 1..n |-> a[1]]

(***************************************************************************)
(* Sequential reading of a run of fields                                   *)
(*                                                                         *)
(* A layout entry is <<name, kind, count, mode>>:                          *)
(*   "str"    "".join(map(chr, vf.read(count))).rstrip("\0")               *)
(*   "scalar" np.fromfile(vf, kind, 1)[0], or the assignment of            *)
(*            np.fromfile(vf, kind, 1) to one array entry: both raise      *)
(*            when no whole item is left                                   *)
(*   "array"  np.fromfile(vf, kind, count), kept as read (maybe short)     *)
(*   "bcast"  assignment of the count items to a slot of count entries     *)
(* The cursor moves by what was read.                                      *)
(***************************************************************************)
RECURSIVE ReadFields(_, _, _, _, _)
ReadFields(f, layout, k, pos, acc) ==
    IF k > Len(layout) THEN [ok |-> TRUE, val |-> acc, pos |-> pos]
    ELSE
      With(IF layout[k][4] = "str" THEN Take(f, pos, layout[k][3])
           ELSE fromfile(f, pos, layout[k][2], layout[k][3]),
           LAMBDA items :
      LET name == layout[k][1]
          count == layout[k][3]
          mode == layout[k][4]
          next == pos + Len(items) * ItemSize(layout[k][2])
      IN  CASE mode = "str" ->
                 ReadFields(f, layout, k + 1, next, acc @@ (name :> rstrip(items)))
            [] mode = "scalar" ->
                 IF Len(items) = 0 THEN [ok |-> FALSE, val |-> acc, pos |-> pos]
                 ELSE ReadFields(f, layout, k + 1, next, acc @@ (name :> items[1]))
            [] mode = "array" ->
                 ReadFields(f, layout, k + 1, next, acc @@ (name :> items))
            [] OTHER ->
                 IF ~CanBroadcast(items, count)
                 THEN [ok |-> FALSE, val |-> acc, pos |-> pos]
                 ELSE ReadFields(f, layout, k + 1, next,
                                 acc @@ (name :> Broadcast(items, count))))

\* The global header, in the order _open_vol reads it.
HeaderLayout ==
    << <<"version", "chr", 12, "str">>,
       <<"size_x", "int32", 1, "scalar">>,
       <<"num_b_scans", "int32", 1, "scalar">>,
       <<"size_z", "int32", 1, "scalar">>,
       <<"scale_x", "float64", 1, "scalar">>,
       <<"distance", "float64", 1, "scalar">>,
       <<"scale_z", "float64", 1, "scalar">>,
       <<"size_x_slo", "int32", 1, "scalar">>,
       <<"size_y_slo", "int32", 1, "scalar">>,
       <<"scale_x_slo", "float64", 1, "scalar">>,
       <<"scale_y_slo", "float64", 1, "scalar">>,
       <<"field_size_slo", "int32", 1, "scalar">>,
       <<"scan_focus", "float64", 1, "scalar">>,
       <<"scan_position", "chr", 4, "str">>,
       <<"unconverted_exam_time", "uint64", 1, "scalar">>,
       <<"scan_pattern", "int32", 1, "scalar">>,
       <<"b_scan_hdr_size", "int32", 1, "scalar">>,
       <<"id", "chr", 16, "str">>,
       <<"reference_id", "chr", 16, "str">>,
       <<"pid", "int32", 1, "scalar">>,
       <<"patient_id", "chr", 21, "str">>,
       <<"padding", "int8", 3, "array">>,
       <<"unconverted_dob", "float64", 1, "scalar">>,
       <<"vid", "int32", 1, "scalar">>,
       <<"visit_id", "chr", 24, "str">>,
       <<"unconverted_visit_date", "float64", 1, "scalar">>,
       <<"grid_type", "int32", 1, "scalar">>,
       <<"grid_offset", "int32", 1, "scalar">>,
       <<"spare", "int8", 1832, "array">> >>

\* The fixed part of a B-scan header, in the order _open_vol reads it.
BScanLayout ==
    << <<"version", "chr", 12, "bcast">>,
       <<"b_scan_hdr_size", "int32", 1, "scalar">>,
       <<"start_x", "float64", 1, "scalar">>,
       <<"start_y", "float64", 1, "scalar">>,
       <<"end_x", "float64", 1, "scalar">>,
       <<"end_y", "float64", 1, "scalar">>,
       <<"num_seg", "int32", 1, "scalar">>,
       <<"off_seg", "int32", 1, "scalar">>,
       <<"quality", "float32", 1, "scalar">>,
       <<"shift", "int32", 1, "scalar">>,
       <<"spare", "int8", 192, "bcast">> >>

\* The thickness grid up to the sector part, in the order _open_vol reads it.
GridLayout ==
    << <<"type", "int32", 1, "scalar">>,
       <<"diameter", "float64", 3, "array">>,
       <<"center_pos", "float64", 2, "array">>,
       <<"central_thk", "float32", 1, "scalar">>,
       <<"min_central_thk", "float32", 1, "scalar">>,
       <<"max_central_thk", "float32", 1, "scalar">>,
       <<"total_volume", "float32", 1, "scalar">> >>

\* One sector of the thickness grid.
SectorLayout ==
    << <<"thickness", "float32", 1, "scalar">>,
       <<"volume", "float32", 1, "scalar">> >>

(***************************************************************************)
(* _open_vol                                                               *)
(***************************************************************************)

\* An operation that raised: no value is returned.
Failed == [ok |-> FALSE]

\* float32 NaN, the fill value of np.full(..., np.nan, dtype='float32').
NaN32 == <<0, 0, 192, 127>>

\* The three derived date fields.  They are pure functions of the raw values:
\* the raw count together with the epoch it is counted from.
DerivedDates(h) ==
    [exam_time |-> [epoch |-> "1601-01-01", ticks_100ns |-> h.unconverted_exam_time],
     dob |-> [epoch |-> "1899-12-30", date_of_days |-> h.unconverted_dob],
     visit_date |-> [epoch |-> "1899-12-30", days |-> h.unconverted_visit_date]]

\* dtype itemsize of the header integers that crop_vol assigns anew: np.fromfile
\* reads them as int32.
HeaderDtype == [size_x |-> 4, num_b_scans |-> 4, grid_offset |-> 4]

\* Bytes of one B-scan image, size_x * size_z * 4, where size_x and size_z have
\* the itemsize wx and 4.
ImageBytes(size_x, size_z, wx, w) ==
    PMul(IF wx = 4 THEN Mul32(size_x, size_z) ELSE PMul(size_x, size_z, w), 4, w)

\* Offset of B-scan record i (from 0), the argument of vf.seek:
\* 2048 + size_x_slo * size_y_slo + i * (b_scan_hdr_size + size_x * size_z * 4)
RecordBase(h, i, w) ==
    PAdd(PAdd(HeaderSize, Mul32(h.size_x_slo, h.size_y_slo), w),
         PMul(i, PAdd(h.b_scan_hdr_size,
                      ImageBytes(h.size_x, h.size_z, h.dtype.size_x, w), w), w),
         w)

\* Read segmentation: for i_boundary in range(num_seg[i_b_scan]), row i_b_scan of
\* boundary_{i_boundary+1}.  nbnd arrays exist (num_seg of record 0); a further
\* one is a KeyError.
RECURSIVE ReadBoundaries(_, _, _, _, _, _, _)
ReadBoundaries(f, pos, k, n, nbnd, size_x, acc) ==
    IF k >= n THEN [ok |-> TRUE, rows |-> acc]
    ELSE IF k >= nbnd THEN Failed
    ELSE With(fromfile(f, pos, "float32", size_x), LAMBDA items :
           IF ~CanBroadcast(items, size_x) THEN Failed
           ELSE ReadBoundaries(f, pos + Len(items) * 4, k + 1, n, nbnd, size_x,
                               Append(acc, Broadcast(items, size_x))))

\* Read segmentation and the B scan of the record at base whose header is rec.
ReadBScanData(f, h, i, nbnd, w, base, rec) ==
    With(PAdd(base, rec.off_seg, w), LAMBDA segpos :
    With(PAdd(base, h.b_scan_hdr_size, w), LAMBDA imgpos :
      IF segpos < 0 \/ imgpos < 0 THEN Failed
      ELSE
        With(ReadBoundaries(f, segpos, 0, rec.num_seg, nbnd, h.size_x, <<>>),
             LAMBDA seg :
          IF ~seg.ok THEN Failed
          ELSE
            With(Mul32(h.size_x, h.size_z), LAMBDA npix :
            With(fromfile(f, imgpos, "float32", npix), LAMBDA img :
              \* reshape((size_z, size_x)) of another number of items raises
              IF Len(img) # npix THEN Failed
              ELSE [ok |-> TRUE,
                    rec |-> rec,
                    nbnd |-> nbnd,
                    \* rows of the boundaries this record does not have stay NaN
                    rows |-> [k \in 1..nbnd |->
                                 IF k <= Len(seg.rows) THEN seg.rows[k]
                                 ELSE [x \in 1..h.size_x |-> NaN32]],
                    \* reshape((size_z, size_x))
                    image |-> [z \in 1..h.size_z |->
                                  [x \in 1..h.size_x |->
                                      img[(z - 1) * h.size_x + x]]]])))))

\* One pass of the loop over i_b_scan: header, segmentation, image.  The
\* boundary arrays are made in the pass of record 0, num_seg of them.
ReadBScan(f, h, i, nbnd0, w) ==
    With(RecordBase(h, i, w), LAMBDA base :
      IF base < 0 THEN Failed
      ELSE
        With(ReadFields(f, BScanLayout, 1, base, <<>>), LAMBDA fx :
          IF ~fx.ok THEN Failed
          ELSE ReadBScanData(f, h, i,
                             IF i = 0 THEN Max(fx.val.num_seg, 0) ELSE nbnd0,
                             w, base, fx.val)))

RECURSIVE ReadBScans(_, _, _, _, _, _)
ReadBScans(f, h, i, nbnd, acc, w) ==
    IF i >= h.num_b_scans THEN [ok |-> TRUE, recs |-> acc, nbnd |-> nbnd]
    ELSE With(ReadBScan(f, h, i, nbnd, w), LAMBDA r :
           IF ~r.ok THEN Failed
           ELSE With(Append(acc, r), LAMBDA acc1 :
                  ReadBScans(f, h, i + 1, r.nbnd, acc1, w)))

RECURSIVE ReadSectors(_, _, _, _)
ReadSectors(f, i, pos, acc) ==
    IF i > NumSectors THEN [ok |-> TRUE, sectors |-> acc]
    ELSE With(ReadFields(f, SectorLayout, 1, pos, <<>>), LAMBDA s :
           IF ~s.ok THEN Failed
           ELSE ReadSectors(f, i + 1, s.pos, Append(acc, s.val)))

\* Read the thickness info if it exists.
ReadGrid(f, h) ==
    IF h.grid_type = 0 THEN [ok |-> TRUE, grid |-> <<>>]
    ELSE IF h.grid_offset < 0 THEN Failed
    ELSE With(ReadFields(f, GridLayout, 1, h.grid_offset, <<>>), LAMBDA g :
           IF ~g.ok THEN Failed
           ELSE With(ReadSectors(f, 1, g.pos, <<>>), LAMBDA s :
                  IF ~s.ok THEN Failed
                  ELSE [ok |-> TRUE, grid |-> g.val @@ ("sectors" :> s.sectors)]))

\* The columns of b_scan_header (one entry per B-scan) and the boundary arrays.
BScanHeader(recs, nbnd) ==
    [version |-> [i \in 1..Len(recs) |-> recs[i].rec.version],
     b_scan_hdr_size |-> [i \in 1..Len(recs) |-> recs[i].rec.b_scan_hdr_size],
     start_x |-> [i \in 1..Len(recs) |-> recs[i].rec.start_x],
     start_y |-> [i \in 1..Len(recs) |-> recs[i].rec.start_y],
     end_x |-> [i \in 1..Len(recs) |-> recs[i].rec.end_x],
     end_y |-> [i \in 1..Len(recs) |-> recs[i].rec.end_y],
     num_seg |-> [i \in 1..Len(recs) |-> recs[i].rec.num_seg],
     off_seg |-> [i \in 1..Len(recs) |-> recs[i].rec.off_seg],
     quality |-> [i \in 1..Len(recs) |-> recs[i].rec.quality],
     shift |-> [i \in 1..Len(recs) |-> recs[i].rec.shift],
     spare |-> [i \in 1..Len(recs) |-> recs[i].rec.spare],
     boundary |-> [k \in 1..nbnd |-> [i \in 1..Len(recs) |-> recs[i].rows[k]]]]

\* The header dict: the fields read, the derived dates and the dtypes.
HeaderDict(fields) == fields @@ DerivedDates(fields) @@ ("dtype" :> HeaderDtype)

\* _open_vol: header, slo, b_scan_header, b_scans, thickness_grid, or a raise.
open_vol(f, w) ==
    With(ReadFields(f, HeaderLayout, 1, 0, <<>>), LAMBDA hr :
      IF ~hr.ok THEN Failed
      ELSE
        With(HeaderDict(hr.val), LAMBDA h :
        With(Mul32(h.size_x_slo, h.size_y_slo), LAMBDA nslo :
        With(fromfile(f, HeaderSize, "uint8", nslo), LAMBDA slo :
          \* reshape((size_y_slo, size_x_slo)); np.full of a negative extent raises
          IF h.size_x_slo < 0 \/ h.size_y_slo < 0 \/ Len(slo) # nslo THEN Failed
          ELSE IF h.num_b_scans < 0 \/ h.size_x < 0 \/ h.size_z < 0 THEN Failed
          ELSE
            With(ReadBScans(f, h, 0, 0, <<>>, w), LAMBDA bs :
              IF ~bs.ok THEN Failed
              ELSE
                With(ReadGrid(f, h), LAMBDA g :
                  IF ~g.ok THEN Failed
                  ELSE
                    [ok |-> TRUE,
                     header |-> h,
                     slo |-> [y \in 1..h.size_y_slo |->
                                [x \in 1..h.size_x_slo |->
                                    slo[(y - 1) * h.size_x_slo + x]]],
                     b_scan_header |-> BScanHeader(bs.recs, bs.nbnd),
                     b_scans |-> [i \in 1..Len(bs.recs) |-> bs.recs[i].image],
                     thickness_grid |-> g.grid]))))))

(***************************************************************************)
(* write_vol                                                               *)
(***************************************************************************)

\* The concatenation of a sequence of byte sequences.
RECURSIVE ConcatRange(_, _, _)
ConcatRange(ss, lo, hi) ==
    IF lo > hi THEN <<>>
    ELSE IF lo = hi THEN ss[lo]
    ELSE ConcatRange(ss, lo, (lo + hi) \div 2) \o ConcatRange(ss, (lo + hi) \div 2 + 1, hi)
Concat(ss) == ConcatRange(ss, 1, Len(ss))

\* vf.seek(pos) followed by a write of bs: bytes there are overwritten, a gap
\* before pos is filled with zero bytes, and writing nothing leaves the file alone.
Write(f, pos, bs) ==
    IF bs = <<>> THEN f
    ELSE (IF pos <= Len(f) THEN SubSeq(f, 1, pos) ELSE f \o Zeros(pos - Len(f)))
           \o bs
           \o (IF pos + Len(bs) < Len(f) THEN SubSeq(f, pos + Len(bs) + 1, Len(f))
               ELSE <<>>)

\* str.encode() of one character chr(c), c in 0..255: UTF-8.
Utf8(c) == IF c < 128 THEN <<c>> ELSE <<192 + (c \div 64), 128 + (c % 64)>>

\* s.encode() + (width - len(s)) * b'\0': a negative repeat count gives b''.
EncodeStr(s, width) ==
    Concat([i \in 1..Len(s) |-> Utf8(s[i])]) \o Zeros(Max(width - Len(s), 0))

\* np.vectorize(str.encode)(version[:, i]).tofile(vf): an array of byte strings
\* whose itemsize is the longest encoding (at least 1); '' is chr(0) as numpy
\* keeps it in a U1 array.
EncodeChars(cs) ==
    LET enc == [i \in 1..Len(cs) |-> IF cs[i] = 0 THEN <<>> ELSE Utf8(cs[i])]
        size == IF \E i \in 1..Len(cs) : Len(enc[i]) = 2 THEN 2 ELSE 1
    IN  Concat([i \in 1..Len(cs) |-> enc[i] \o Zeros(size - Len(enc[i]))])

\* The global header, in the order write_vol writes it: <<name, how, width>>.
HeaderWriteLayout ==
    << <<"version", "str", 12>>,
       <<"size_x", "int", 4>>,
       <<"num_b_scans", "int", 4>>,
       <<"size_z", "int", 4>>,
       <<"scale_x", "bits", 8>>,
       <<"distance", "bits", 8>>,
       <<"scale_z", "bits", 8>>,
       <<"size_x_slo", "int", 4>>,
       <<"size_y_slo", "int", 4>>,
       <<"scale_x_slo", "bits", 8>>,
       <<"scale_y_slo", "bits", 8>>,
       <<"field_size_slo", "int", 4>>,
       <<"scan_focus", "bits", 8>>,
       <<"scan_position", "str", 4>>,
       <<"unconverted_exam_time", "bits", 8>>,
       <<"scan_pattern", "int", 4>>,
       <<"b_scan_hdr_size", "int", 4>>,
       <<"id", "str", 16>>,
       <<"reference_id", "str", 16>>,
       <<"pid", "int", 4>>,
       <<"patient_id", "str", 21>>,
       <<"padding", "bytes", 3>>,
       <<"unconverted_dob", "bits", 8>>,
       <<"vid", "int", 4>>,
       <<"visit_id", "str", 24>>,
       <<"unconverted_visit_date", "bits", 8>>,
       <<"grid_type", "int", 4>>,
       <<"grid_offset", "int", 4>>,
       <<"spare", "bytes", 1832>> >>

\* The bytes one header field puts into the file.  value.tofile(vf) writes the
\* itemsize of the value's own dtype: the width of the layout is what np.fromfile
\* gave it, h.dtype what crop_vol gave it.
HeaderFieldBytes(h, e) ==
    CASE e[2] = "str" -> EncodeStr(h[e[1]], e[3])
      [] e[2] = "int" ->
           IntBytes(h[e[1]], IF e[1] \in DOMAIN h.dtype THEN h.dtype[e[1]] ELSE e[3])
      [] OTHER -> h[e[1]]

\* Write the header: the fields one after the other from offset 0.
WriteHeader(h) ==
    Concat([k \in 1..Len(HeaderWriteLayout) |-> HeaderFieldBytes(h, HeaderWriteLayout[k])])

\* The fixed part of B-scan header i (from 1), written one field after the other.
BScanHeaderBytes(bh, i) ==
    EncodeChars(bh.version[i])
      \o IntBytes(bh.b_scan_hdr_size[i], 4)
      \o bh.start_x[i] \o bh.start_y[i] \o bh.end_x[i] \o bh.end_y[i]
      \o IntBytes(bh.num_seg[i], 4)
      \o IntBytes(bh.off_seg[i], 4)
      \o bh.quality[i]
      \o IntBytes(bh.shift[i], 4)
      \o bh.spare[i]

\* Every per-record array write_vol indexes with i has an entry i.
HasRecord(v, i) ==
    /\ \A c \in {"version", "b_scan_hdr_size", "start_x", "start_y", "end_x", "end_y",
                 "num_seg", "off_seg", "quality", "shift", "spare"} :
          i <= Len(v.b_scan_header[c])
    /\ i <= Len(v.b_scans)
    /\ v.b_scan_header.num_seg[i] <= Len(v.b_scan_header.boundary)
    /\ \A k \in 1..Len(v.b_scan_header.boundary) : i <= Len(v.b_scan_header.boundary[k])

\* Write BScan and BScan header: the loop over i_b_scan, from record i (from 0) on.
RECURSIVE WriteBScans(_, _, _, _)
WriteBScans(f, v, i, w) ==
    IF i >= v.header.num_b_scans THEN [ok |-> TRUE, bytes |-> f]
    ELSE IF ~HasRecord(v, i + 1) THEN Failed
    ELSE
      With(RecordBase(v.header, i, w), LAMBDA base :
      With(PAdd(base, v.b_scan_header.off_seg[i + 1], w), LAMBDA segpos :
      With(PAdd(base, v.header.b_scan_hdr_size, w), LAMBDA imgpos :
        IF base < 0 \/ segpos < 0 \/ imgpos < 0 THEN Failed
        ELSE
          With(Write(Write(Write(f, base, BScanHeaderBytes(v.b_scan_header, i + 1)),
                           segpos,
                           Concat([k \in 1..Max(v.b_scan_header.num_seg[i + 1], 0) |->
                                      Concat(v.b_scan_header.boundary[k][i + 1])])),
                     imgpos,
                     Concat([z \in 1..Len(v.b_scans[i + 1]) |->
                                Concat(v.b_scans[i + 1][z])])),
               LAMBDA f1 : WriteBScans(f1, v, i + 1, w)))))

\* Write the thickness grid if it exists.
GridBytes(g) ==
    IntBytes(g.type, 4)
      \o Concat(g.diameter) \o Concat(g.center_pos)
      \o g.central_thk \o g.min_central_thk \o g.max_central_thk \o g.total_volume
      \o Concat([i \in 1..NumSectors |-> g.sectors[i].thickness \o g.sectors[i].volume])

\* write_vol: the bytes of the file written, or a raise.
write_vol(v, w) ==
    With(WriteBScans(Write(WriteHeader(v.header), HeaderSize, Concat(v.slo)), v, 0, w),
         LAMBDA bs :
      IF ~bs.ok THEN Failed
      ELSE IF v.header.grid_offset < 0 THEN Failed
      ELSE IF v.header.grid_type = 0 THEN [ok |-> TRUE, bytes |-> bs.bytes]
      ELSE IF DOMAIN v.thickness_grid = {} THEN Failed
      ELSE [ok |-> TRUE,
            bytes |-> Write(bs.bytes, v.header.grid_offset, GridBytes(v.thickness_grid))])

(***************************************************************************)
(* crop_vol                                                                *)
(*                                                                         *)
(* Lengths are counted in quarter millimetres: a crop_size of 6 mm is 24.  *)
(***************************************************************************)

\* crop_size == 6, in quarter millimetres.
SixMillimetres == 24

\* floor and ceiling of the quotient n / d, d # 0.
FloorDiv(n, d) == IF d > 0 THEN n \div d ELSE (0 - n) \div (0 - d)
CeilDiv(n, d) == 0 - FloorDiv(0 - n, d)

\* np.round(n / d): to the nearest integer, a tie to the even one.
RoundHalfEven(n, d) ==
    LET lo == FloorDiv(n, d)
        r2 == 2 * (IF d > 0 THEN n - lo * d ELSE lo * d - n)
        ad == IF d > 0 THEN d ELSE 0 - d
    IN  IF r2 < ad THEN lo
        ELSE IF r2 > ad THEN lo + 1
        ELSE IF lo % 2 = 0 THEN lo ELSE lo + 1

\* a[lo:hi] of Python, lo >= 0: a negative hi counts from the end, and an empty
\* or inverted range gives the empty sequence.
PySlice(a, lo, hi) ==
    LET n == Len(a)
        h == IF hi < 0 THEN Max(hi + n, 0) ELSE Min(hi, n)
        l == Min(lo, n)
    IN  IF l >= h THEN <<>> ELSE SubSeq(a, l + 1, h)

\* slo_volume_angle as (cos, sin).  dy/dx is a float64 division: nan for 0/0,
\* +-inf for dy/0 (atan gives +-pi/2), 0 for 0/dx; pi is added when
\* end_x[-1] > end_x[0].  Scan lines are axis parallel in this model.
VolumeAngle(dx, dy) ==
    CASE dx = 0 /\ dy = 0 -> [nan |-> TRUE, cos |-> 0, sin |-> 0]
      [] dx = 0 /\ dy > 0 -> [nan |-> FALSE, cos |-> 0, sin |-> 1]
      [] dx = 0 /\ dy < 0 -> [nan |-> FALSE, cos |-> 0, sin |-> 0 - 1]
      [] dx > 0 /\ dy = 0 -> [nan |-> FALSE, cos |-> 1, sin |-> 0]
      [] dx < 0 /\ dy = 0 -> [nan |-> FALSE, cos |-> 0 - 1, sin |-> 0]

\* center_position_x_mm and center_position_y_mm: the grid centre in the
\* coordinates of the volume, from the end point of the last B scan.
CenterPosition(bh, g, ang) ==
    LET n == Len(bh.end_x)
        rx == F64Num(g.center_pos[1]) - F64Num(bh.end_x[n])
        ry == F64Num(g.center_pos[2]) - F64Num(bh.end_y[n])
    IN  [x_mm |-> (0 - rx) * ang.sin + ry * ang.cos,
         y_mm |-> rx * ang.cos + ry * ang.sin]

\* FirstScan with the floor taken where the source takes the ceiling.
FirstScan_Floor(c2, scale, crop_size) ==
    IF FloorDiv(c2 * scale - crop_size, 2 * scale) >= 1
    THEN FloorDiv(c2 * scale - crop_size, 2 * scale)
    ELSE 1

\* The window around the centre c2 / 2 on an axis of n scans of pitch scale:
\* max(ceil(c - crop_size / scale / 2), 1) and min(floor(c + crop_size / scale / 2), n).
FirstScan(c2, scale, crop_size) ==
    Max(CeilDiv(c2 * scale - crop_size, 2 * scale), 1)

LastScan(c2, scale, crop_size, n) ==
    Min(FloorDiv(c2 * scale + crop_size, 2 * scale), n)

\* Twice center_position_a_scan (or _b_scan): n - np.round(mm / scale * 2) / 2.
CenterScan2(n, mm, scale) == 2 * n - RoundHalfEven(2 * mm, scale)

\* Find the position of the fovea and the boundaries for the cropping: numbers
\* of A scans and B scans, from 1.
CropWindowAt(h, ang, c, crop_size) ==
    With(CenterScan2(h.size_x, c.x_mm, F64Num(h.scale_x)), LAMBDA center2_a :
    With(CenterScan2(h.num_b_scans, c.y_mm, F64Num(h.distance)), LAMBDA center2_b :
      [ok |-> TRUE,
       cos |-> ang.cos,
       sin |-> ang.sin,
       center2_a |-> center2_a,
       center2_b |-> center2_b,
       first_a_scan |-> FirstScan(center2_a, F64Num(h.scale_x), crop_size),
       last_a_scan |-> LastScan(center2_a, F64Num(h.scale_x), crop_size, h.size_x),
       first_b_scan |-> FirstScan(center2_b, F64Num(h.distance), crop_size),
       last_b_scan |-> LastScan(center2_b, F64Num(h.distance), crop_size,
                                h.num_b_scans)]))

CropWindow(v, crop_size) ==
    \* end_y[0] of an empty array, center_pos of an empty dict: a raise
    IF Len(v.b_scan_header.end_x) = 0 \/ Len(v.b_scan_header.end_y) = 0
       \/ DOMAIN v.thickness_grid = {} THEN Failed
    ELSE
      With(VolumeAngle(F64Num(v.b_scan_header.end_x[1])
                         - F64Num(v.b_scan_header.end_x[Len(v.b_scan_header.end_x)]),
                       F64Num(v.b_scan_header.end_y[1])
                         - F64Num(v.b_scan_header.end_y[Len(v.b_scan_header.end_y)])),
           LAMBDA ang :
        \* int() of nan or of an infinity: a raise
        IF ang.nan \/ F64Num(v.header.scale_x) = 0 \/ F64Num(v.header.distance) = 0
        THEN Failed
        ELSE CropWindowAt(v.header, ang,
                          CenterPosition(v.b_scan_header, v.thickness_grid, ang),
                          crop_size))

\* Crop the boundary segmentation: the arrays boundary_1 .. boundary_{num_seg[0]}.
CropBoundaries(bh, w) ==
    [k \in 1..Len(bh.boundary) |->
        IF k <= bh.num_seg[1]
        THEN LET rows == PySlice(bh.boundary[k], w.first_b_scan - 1, w.last_b_scan)
             IN  [i \in 1..Len(rows) |->
                     PySlice(rows[i], w.first_a_scan - 1, w.last_a_scan)]
        ELSE bh.boundary[k]]

\* Crop B scans: b_scans[:, first_a_scan-1:last_a_scan, first_b_scan-1:last_b_scan].
CropBScans(b, w) ==
    LET scans == PySlice(b, w.first_b_scan - 1, w.last_b_scan)
    IN  [i \in 1..Len(scans) |->
            [z \in 1..Len(scans[i]) |->
                PySlice(scans[i][z], w.first_a_scan - 1, w.last_a_scan)]]

\* CropBScanHeader with the end point moved by the size_x of after the crop.
CropBScanHeader_NewSizeX(v, w) ==
    LET h == v.header
        bh == v.b_scan_header
        scale_x == F64Num(h.scale_x)
        head == (w.first_a_scan - 1) * scale_x
        tail == ((w.last_a_scan - w.first_a_scan + 1) - w.last_a_scan) * scale_x
        moved(col, d) == [i \in 1..Len(col) |-> ToF64(F64Num(col[i]) + d)]
        cut(col) == PySlice(col, w.first_b_scan - 1, w.last_b_scan)
    IN  [version |-> cut(bh.version),
         b_scan_hdr_size |-> cut(bh.b_scan_hdr_size),
         start_x |-> cut(moved(bh.start_x, head * w.sin)),
         start_y |-> cut(moved(bh.start_y, head * (0 - w.cos))),
         end_x |-> cut(moved(bh.end_x, tail * (0 - w.sin))),
         end_y |-> cut(moved(bh.end_y, tail * w.cos)),
         num_seg |-> cut(bh.num_seg),
         off_seg |-> cut(bh.off_seg),
         quality |-> cut(bh.quality),
         shift |-> cut(bh.shift),
         spare |-> cut(bh.spare),
         boundary |-> CropBoundaries(bh, w)]

\* Recalculate the start and end of each B scan, then crop the rest of the
\* b_scan_header.  cos(3pi/2 + a) = sin a, sin(3pi/2 + a) = -cos a,
\* cos(pi/2 + a) = -sin a, sin(pi/2 + a) = cos a.
CropBScanHeader(v, w) ==
    LET h == v.header
        bh == v.b_scan_header
        scale_x == F64Num(h.scale_x)
        head == (w.first_a_scan - 1) * scale_x
        tail == (h.size_x - w.last_a_scan) * scale_x
        moved(col, d) == [i \in 1..Len(col) |-> ToF64(F64Num(col[i]) + d)]
        cut(col) == PySlice(col, w.first_b_scan - 1, w.last_b_scan)
    IN  [version |-> cut(bh.version),
         b_scan_hdr_size |-> cut(bh.b_scan_hdr_size),
         start_x |-> cut(moved(bh.start_x, head * w.sin)),
         start_y |-> cut(moved(bh.start_y, head * (0 - w.cos))),
         end_x |-> cut(moved(bh.end_x, tail * (0 - w.sin))),
         end_y |-> cut(moved(bh.end_y, tail * w.cos)),
         num_seg |-> cut(bh.num_seg),
         off_seg |-> cut(bh.off_seg),
         quality |-> cut(bh.quality),
         shift |-> cut(bh.shift),
         spare |-> cut(bh.spare),
         boundary |-> CropBoundaries(bh, w)]

\* NewGridOffset with the offset of the file read kept.
NewGridOffset_Kept(h, size_x, num_b_scans, w) == h.grid_offset

\* Update the grid_offset in the header, from the new size_x and num_b_scans.
NewGridOffset(h, size_x, num_b_scans, w) ==
    PAdd(PAdd(HeaderSize, Mul32(h.size_x_slo, h.size_y_slo), w),
         PMul(num_b_scans, PAdd(h.b_scan_hdr_size, ImageBytes(size_x, h.size_z, w, w), w), w),
         w)

\* Update the size_x and num_b_scans in the header.  The new values are numpy
\* integers of the platform's default width intsize, not int32.
CropHeader(h, w, intsize) ==
    LET size_x == w.last_a_scan - w.first_a_scan + 1
        num_b_scans == w.last_b_scan - w.first_b_scan + 1
    IN  [h EXCEPT !.size_x = size_x,
                  !.num_b_scans = num_b_scans,
                  !.grid_offset = NewGridOffset(h, size_x, num_b_scans, intsize),
                  !.dtype = [size_x |-> intsize, num_b_scans |-> intsize,
                             grid_offset |-> intsize]]

\* float32(0)
Zero32 == <<0, 0, 0, 0>>

\* CropGrid with the loop over the sectors left out.
CropGrid_SectorsKept(g, crop_size) ==
    IF crop_size # SixMillimetres THEN g
    ELSE [g EXCEPT !.type = 3,
                   !.diameter = <<ToF64(4), ToF64(12), ToF64(24)>>,
                   !.central_thk = Zero32,
                   !.min_central_thk = Zero32,
                   !.max_central_thk = Zero32,
                   !.total_volume = Zero32]

\* Update grid type to ETDRS and reset the sector parameters, in case 6mm crop
\* was selected.
CropGrid(g, crop_size) ==
    IF crop_size # SixMillimetres THEN g
    ELSE [g EXCEPT !.type = 3,
                   !.diameter = <<ToF64(4), ToF64(12), ToF64(24)>>,
                   !.central_thk = Zero32,
                   !.min_central_thk = Zero32,
                   !.max_central_thk = Zero32,
                   !.total_volume = Zero32,
                   !.sectors = [i \in 1..NumSectors |->
                                   [thickness |-> Zero32, volume |-> Zero32]]]

\* CropTo with the SLO image cut to the A scan window as well.
CropTo_SloCropped(v, w, crop_size, intsize) ==
    IF ~w.ok THEN [ok |-> FALSE, vol |-> v, window |-> w]
    ELSE IF v.b_scan_header.num_seg[1] > Len(v.b_scan_header.boundary)
    THEN [ok |-> FALSE,
          vol |-> [v EXCEPT !.b_scan_header.boundary = CropBoundaries(v.b_scan_header, w)],
          window |-> w]
    ELSE [ok |-> TRUE,
          vol |-> [header |-> CropHeader(v.header, w, intsize),
                   slo |-> [r \in 1..Len(v.slo) |->
                               PySlice(v.slo[r], w.first_a_scan - 1, w.last_a_scan)],
                   b_scan_header |-> CropBScanHeader(v, w),
                   b_scans |-> CropBScans(v.b_scans, w),
                   thickness_grid |-> CropGrid(v.thickness_grid, crop_size)],
          window |-> w]

\* crop_vol(crop_size): the volume after the call, whether it returned (ok) and
\* the window it used.
CropTo(v, w, crop_size, intsize) ==
    IF ~w.ok THEN [ok |-> FALSE, vol |-> v, window |-> w]
    \* boundary_{k} with k beyond the arrays there are: a KeyError after the
    \* arrays before it were cropped
    ELSE IF v.b_scan_header.num_seg[1] > Len(v.b_scan_header.boundary)
    THEN [ok |-> FALSE,
          vol |-> [v EXCEPT !.b_scan_header.boundary = CropBoundaries(v.b_scan_header, w)],
          window |-> w]
    ELSE [ok |-> TRUE,
          vol |-> [header |-> CropHeader(v.header, w, intsize),
                   slo |-> v.slo,
                   b_scan_header |-> CropBScanHeader(v, w),
                   b_scans |-> CropBScans(v.b_scans, w),
                   thickness_grid |-> CropGrid(v.thickness_grid, crop_size)],
          window |-> w]

crop_vol(v, crop_size, intsize) == CropTo(v, CropWindow(v, crop_size), crop_size, intsize)

(***************************************************************************)
(* Input files                                                             *)
(*                                                                         *)
(* A file as the device exports it, laid out as _open_vol reads it, from   *)
(* the parameters p: size_x sx, num_b_scans nb, size_z sz, the boundary    *)
(* count nseg[i] of each record, scale_x S and distance D, the direction   *)
(* (cos, sin) of the volume, the centre of the thickness grid (ca along    *)
(* the A scans from A scan 1, cb along the B scans from B scan 1),         *)
(* grid_type, the patient_id bytes pid, the first byte ver of the record   *)
(* version tags, the SLO size and the length cut the file is truncated to  *)
(* (-1: whole).                                                            *)
(***************************************************************************)
Pad(bs, w) == bs \o Zeros(w - Len(bs))

\* Length of one record header: the fixed 256 bytes and the boundary lines.
InputHdrSize(p) ==
    LET m == CHOOSE m \in {p.nseg[i] : i \in 1..Len(p.nseg)} \cup {0} :
                \A i \in 1..Len(p.nseg) : p.nseg[i] <= m
    IN  256 + m * p.sx * 4

InputRecordSize(p) == InputHdrSize(p) + p.sx * p.sz * 4

InputGridOffset(p) == HeaderSize + p.sxs * p.sys + p.nb * InputRecordSize(p)

InputHeader(p) ==
    Pad(<<72, 83, 70, 45, 79, 67, 84, 45, 49, 48, 51>>, 12)
      \o IntBytes(p.sx, 4) \o IntBytes(p.nb, 4) \o IntBytes(p.sz, 4)
      \o ToF64(p.S) \o ToF64(p.D) \o <<11, 12, 13, 14, 15, 16, 17, 63>>
      \o IntBytes(p.sxs, 4) \o IntBytes(p.sys, 4)
      \o <<21, 22, 23, 24, 25, 26, 27, 63>> \o <<31, 32, 33, 34, 35, 36, 37, 63>>
      \o IntBytes(30, 4) \o <<41, 42, 43, 44, 45, 46, 47, 191>>
      \o Pad(<<79, 68>>, 4)
      \o <<0, 128, 62, 213, 222, 177, 157, 1>>
      \o IntBytes(3, 4) \o IntBytes(InputHdrSize(p), 4)
      \o Pad(<<69, 89, 69, 50, 51>>, 16) \o Pad(<<82, 69, 70>>, 16)
      \o IntBytes(8370, 4) \o Pad(p.pid, 21) \o <<255, 0, 1>>
      \o <<0, 0, 0, 0, 128, 28, 221, 64>>
      \o IntBytes(0 - 7, 4) \o Pad(<<86, 49>>, 24)
      \o <<0, 0, 0, 0, 96, 130, 229, 64>>
      \o IntBytes(p.grid_type, 4) \o IntBytes(InputGridOffset(p), 4)
      \o [j \in 1..1832 |-> 1 + (j % 7)]

\* Start of the scan line of B scan i (from 1) and the step along it.
InputStart(p, i) ==
    [x |-> 40 + (p.nb - i) * p.D * p.cos, y |-> 40 + (p.nb - i) * p.D * p.sin]

InputRecord(p, i) ==
    LET s == InputStart(p, i)
        len == (p.sx - 1) * p.S
    IN  Pad(<<p.ver, 83, 70, 45, 66, 83, 45, 49, 48, 51>>, 12)
          \o IntBytes(InputHdrSize(p), 4)
          \o ToF64(s.x) \o ToF64(s.y)
          \o ToF64(s.x + len * p.sin) \o ToF64(s.y - len * p.cos)
          \o IntBytes(p.nseg[i], 4) \o IntBytes(256, 4)
          \o <<i, 0, 200, 65>> \o IntBytes(i - 2, 4)
          \o [j \in 1..192 |-> 1 + ((i + j) % 5)]
          \o Concat([k \in 1..p.nseg[i] |->
                        Concat([x \in 1..p.sx |-> <<x, k, i, 65>>])])
          \o Zeros(InputHdrSize(p) - 256 - p.nseg[i] * p.sx * 4)
          \o Concat([z \in 1..p.sz |-> Concat([x \in 1..p.sx |-> <<x, z, i, 66>>])])

InputGrid(p) ==
    LET s == InputStart(p, 1)
    IN  IntBytes(p.grid_type, 4)
          \o ToF64(4) \o ToF64(8) \o ToF64(12)
          \o ToF64(s.x + p.ca * p.sin - p.cb * p.cos)
          \o ToF64(s.y - p.ca * p.cos - p.cb * p.sin)
          \o <<1, 0, 128, 67>> \o <<2, 0, 128, 67>> \o <<3, 0, 128, 67>> \o <<4, 0, 0, 65>>
          \o Concat([i \in 1..NumSectors |-> <<i, 1, 128, 67>> \o <<i, 2, 0, 63>>])

InputFile(p) ==
    With(InputHeader(p)
           \o [j \in 1..(p.sxs * p.sys) |-> 100 + j]
           \o Concat([i \in 1..p.nb |-> InputRecord(p, i)])
           \o (IF p.grid_type = 0 THEN <<>> ELSE InputGrid(p)),
         LAMBDA whole :
      IF p.cut < 0 THEN whole ELSE SubSeq(whole, 1, Min(p.cut, Len(whole))))

(***************************************************************************)
(* The files and crop sizes the model is run on                            *)
(***************************************************************************)

\* Crops in one run.
MaxCrops == 2
\* The grid centre lies up to MaxCentre quarter millimetres beyond A scan 1
\* (and from 3 quarter millimetres before it).
MaxCentre == 15

\* A 4 x 3 volume of 1 mm pitch with the grid centre on A scan 2, B scan 2.
Plain ==
    [sx |-> 4, nb |-> 3, sz |-> 1, nseg |-> <<1, 1, 1>>, S |-> 4, D |-> 4,
     cos |-> 0, sin |-> 1, ca |-> 4, cb |-> 4, grid_type |-> 1,
     pid |-> <<80, 45, 49>>, ver |-> 72, sxs |-> 2, sys |-> 1, cut |-> 0 - 1]

\* size_x = 10, num_b_scans = 10, scale_x = distance = 0.5 mm, centre at A scan 5,
\* B scan 5.
TenByTen ==
    [Plain EXCEPT !.sx = 10, !.nb = 10, !.nseg = [i \in 1..10 |-> 1],
                  !.S = 2, !.D = 2, !.ca = 8, !.cb = 8]

\* 8 A scans of 1 mm: wider than 6 mm.
Wide == [Plain EXCEPT !.sx = 8, !.nb = 2, !.nseg = <<2, 2>>, !.sz = 2, !.ca = 14, !.cb = 2]

\* No B scan, no SLO image and no thickness grid: a file of the header alone.
HeaderOnly ==
    [Plain EXCEPT !.sx = 0, !.nb = 0, !.sz = 0, !.nseg = <<>>, !.sxs = 0, !.sys = 0,
                  !.grid_type = 0]

Directions ==
    {[cos |-> 0, sin |-> 1], [cos |-> 0, sin |-> 0 - 1],
     [cos |-> 1, sin |-> 0], [cos |-> 0 - 1, sin |-> 0]}

InputParams ==
    \* the grid centre from before the first A scan to beyond the last one
    {[Plain EXCEPT !.ca = c] : c \in (0 - 3)..MaxCentre}
      \* ... and the same along the B scans
      \cup {[Plain EXCEPT !.cb = c] : c \in {0 - 6, 0, 3, 6, 8, 14}}
      \* the four axis-parallel directions, B scans 2 mm apart
      \cup {[Plain EXCEPT !.cos = d.cos, !.sin = d.sin, !.D = 8, !.ca = 6, !.cb = 8] :
               d \in Directions}
      \cup {[Wide EXCEPT !.cos = d.cos, !.sin = d.sin] : d \in Directions}
      \cup {TenByTen}
      \* no thickness grid; one B scan; scale_x of 0
      \cup {[Plain EXCEPT !.grid_type = 0],
            [Plain EXCEPT !.nb = 1, !.nseg = <<1>>, !.cb = 0],
            [Plain EXCEPT !.S = 0]}
      \* bytes above 127 in patient_id and in the version tag of the records;
      \* a patient_id that fills its 21 bytes
      \cup {[Plain EXCEPT !.pid = <<74, 111, 115, 233>>],
            [Plain EXCEPT !.ver = 200],
            [Plain EXCEPT !.pid = [j \in 1..21 |-> 64 + j]]}
      \* records with fewer and with more boundary lines than the first
      \cup {[Plain EXCEPT !.nseg = <<2, 1, 2>>], [Plain EXCEPT !.nseg = <<1, 2, 1>>]}
      \* ... and the centre at the last B scan, so that a crop drops the first record
      \cup {[Plain EXCEPT !.nseg = <<2, 1, 2>>, !.cb = 8]}
      \* the centre 2 mm before the first A scan
      \cup {[Plain EXCEPT !.ca = 0 - 8]}
      \* truncated files
      \cup {[Plain EXCEPT !.cut = c] :
               c \in {0, 100, 215, 216, 1000, 2049, 2050, 2051, 2115, 2306, 2321,
                      3000, 3045}}
      \cup {[HeaderOnly EXCEPT !.cut = c] : c \in {0 - 1, 216, 1000, 2047}}

\* crop_size in quarter millimetres: 1 mm, 3.5 mm, 4 mm, 6 mm.
CropSizes == {4, 14, 16, 24}

\* The default integer of the numpy build: 4 bytes (Windows), 8 bytes (Linux, macOS).
IntSizes == {4, 8}

(***************************************************************************)
(* The program: an OCTVol object is made from a file (__init__ calls       *)
(* _open_vol), cropped in place, written, and the written file is opened   *)
(* as a second object.                                                     *)
(***************************************************************************)
VARIABLES
    file,        \* the bytes of the file at vol_path
    intsize,     \* itemsize of the platform's default integer
    vol,         \* the OCTVol object: header, slo, b_scan_header, b_scans, thickness_grid
    before,      \* the object as it was when the last crop_vol was called
    crop_size,   \* argument of the crop_vol calls
    window,      \* the crop window of the last crop_vol
    written,     \* the bytes write_vol put at write_vol_path
    reread,      \* the OCTVol object made from the written file
    log          \* the calls made so far: <<operation, returned>>

vars == <<file, intsize, vol, before, crop_size, window, written, reread, log>>

\* No object: the constructor raised, or was not called.
NoVol ==
    [header |-> <<>>, slo |-> <<>>, b_scan_header |-> <<>>, b_scans |-> <<>>,
     thickness_grid |-> <<>>]

Volume(r) ==
    IF r.ok
    THEN [header |-> r.header, slo |-> r.slo, b_scan_header |-> r.b_scan_header,
          b_scans |-> r.b_scans, thickness_grid |-> r.thickness_grid]
    ELSE NoVol

Last == IF log = <<>> THEN <<"none", TRUE>> ELSE log[Len(log)]
Crops == Len(SelectSeq(log, LAMBDA e : e[1] = "crop"))

Init ==
    /\ file \in {InputFile(p) : p \in InputParams}
    /\ intsize \in IntSizes
    /\ vol = NoVol
    /\ before = NoVol
    /\ crop_size = 0
    /\ window = Failed
    /\ written = <<>>
    /\ reread = NoVol
    /\ log = <<>>

\* OCTVol(vol_path)
Open ==
    /\ log = <<>>
    /\ \E r \in {open_vol(file, intsize)} :
          /\ vol' = Volume(r)
          /\ log' = <<<<"open", r.ok>>>>
    /\ UNCHANGED <<file, intsize, before, crop_size, window, written, reread>>

\* vol.crop_vol(cs)
Crop(cs) ==
    /\ Last[1] \in {"open", "crop"}
    /\ log[1][2]
    /\ Crops < MaxCrops
    /\ Crops > 0 => cs <= crop_size
    /\ \E r \in {crop_vol(vol, cs, intsize)} :
          /\ vol' = r.vol
          /\ window' = r.window
          /\ log' = Append(log, <<"crop", r.ok>>)
    /\ before' = vol
    /\ crop_size' = cs
    /\ UNCHANGED <<file, intsize, written, reread>>

\* vol.write_vol(write_vol_path)
WriteVol ==
    /\ Last[1] \in {"open", "crop"}
    /\ log[1][2]
    /\ \E r \in {write_vol(vol, intsize)} :
          /\ written' = (IF r.ok THEN r.bytes ELSE <<>>)
          /\ log' = Append(log, <<"write", r.ok>>)
    /\ UNCHANGED <<file, intsize, vol, before, crop_size, window, reread>>

\* OCTVol(write_vol_path)
Reopen ==
    /\ Last = <<"write", TRUE>>
    /\ \E r \in {open_vol(written, intsize)} :
          /\ reread' = Volume(r)
          /\ log' = Append(log, <<"reopen", r.ok>>)
    /\ UNCHANGED <<file, intsize, vol, before, crop_size, window, written>>

Next ==
    \/ Open
    \/ \E cs \in CropSizes : Crop(cs)
    \/ WriteVol
    \/ Reopen

Spec == Init /\ [][Next]_vars

(***************************************************************************)
(* Properties                                                              *)
(***************************************************************************)

\* The last call was a crop_vol that returned.
Cropped == Last = <<"crop", TRUE>>

\* A window that keeps no A scan or no B scan.
EmptyWindow(w) == w.first_a_scan > w.last_a_scan \/ w.first_b_scan > w.last_b_scan

\* Bytes of one B-scan record and offset of record i (from 0), in plain integers.
RecordBytes(h) == h.b_scan_hdr_size + h.size_x * h.size_z * 4
RecordOffset(h, i) == HeaderSize + h.size_x_slo * h.size_y_slo + i * RecordBytes(h)

\* C1: round trip.  A volume that was read, written and read again from the
\* written file is equal to the volume written, field for field: write_vol
\* returns, the second _open_vol returns, and header (raw dates, padding and
\* spare bytes included), slo, b_scan_header (spare bytes and boundaries
\* included), b_scans and thickness_grid (or its absence) are the same.
C1_RoundTrip ==
    /\ (Crops = 0 /\ Last[1] = "write") => Last[2]
    /\ (Crops = 0 /\ Last[1] = "reopen") => (Last[2] /\ reread = vol)

\* C2: after every crop_vol that returns, grid_offset is
\* 2048 + size_x_slo * size_y_slo + num_b_scans * (b_scan_hdr_size + size_x * size_z * 4)
\* of the size_x and num_b_scans after the crop: the thickness grid starts at
\* the end of the last B-scan record left, no record reaches into it, and the
\* offset from before the crop is not kept when the B-scan region shrank.
C2_GridOffsetRecomputed ==
    Cropped =>
      /\ vol.header.grid_offset = RecordOffset(vol.header, vol.header.num_b_scans)
      /\ \A i \in 0..(vol.header.num_b_scans - 1) :
            RecordBase(vol.header, i, intsize) + RecordBytes(vol.header)
              <= vol.header.grid_offset
      /\ (vol.header.num_b_scans * RecordBytes(vol.header)
            < before.header.num_b_scans * RecordBytes(before.header))
           => vol.header.grid_offset < before.header.grid_offset

\* A crop that took A scans away and left a volume with its grid further ahead.
C2_Witness ==
    /\ Cropped
    /\ vol.header.size_x >= 1
    /\ vol.header.num_b_scans >= 1
    /\ vol.header.size_x < before.header.size_x
    /\ vol.header.grid_offset < before.header.grid_offset

\* C3: crop shrinks monotonically.  Whenever crop_vol returns, size_x is at most
\* the size_x before the call and at least 1, and num_b_scans likewise.
C3_CropShrinks ==
    Cropped =>
      /\ vol.header.size_x <= before.header.size_x
      /\ vol.header.size_x >= 1
      /\ vol.header.num_b_scans <= before.header.num_b_scans
      /\ vol.header.num_b_scans >= 1

\* C4: a degenerate crop is rejected.  When the clamped window has
\* first_a_scan > last_a_scan or first_b_scan > last_b_scan, crop_vol raises;
\* it never returns a volume whose size_x or num_b_scans is zero or negative,
\* or whose arrays are empty.
C4_DegenerateRejected ==
    /\ (Last[1] = "crop" /\ window.ok /\ EmptyWindow(window)) => ~Last[2]
    /\ Cropped =>
         /\ vol.header.size_x > 0 /\ vol.header.num_b_scans > 0
         /\ vol.b_scans # <<>>
         /\ \A i \in 1..Len(vol.b_scans) : \A z \in 1..Len(vol.b_scans[i]) :
               vol.b_scans[i][z] # <<>>

\* C5: a 6 mm crop resets the statistics.  After crop_vol(6) the type of the
\* thickness grid is 3, its diameters are 1, 3 and 6 mm, central, minimal and
\* maximal thickness and the total volume are zero, and each of the 9 sectors
\* has thickness zero and volume zero.
C5_SixMillimetreReset ==
    (Cropped /\ crop_size = SixMillimetres) =>
      /\ vol.thickness_grid.type = 3
      /\ [i \in 1..3 |-> F64Num(vol.thickness_grid.diameter[i])] = <<4, 12, 24>>
      /\ \A name \in {"central_thk", "min_central_thk", "max_central_thk", "total_volume"} :
            vol.thickness_grid[name] = <<0, 0, 0, 0>>
      /\ Len(vol.thickness_grid.sectors) = 9
      /\ \A i \in 1..9 :
            /\ vol.thickness_grid.sectors[i].thickness = <<0, 0, 0, 0>>
            /\ vol.thickness_grid.sectors[i].volume = <<0, 0, 0, 0>>

\* A 6 mm crop of a volume whose grid was of another type with statistics in it.
C5_Witness ==
    /\ Cropped
    /\ crop_size = SixMillimetres
    /\ before.thickness_grid.type # 3
    /\ before.thickness_grid.sectors[9].volume # <<0, 0, 0, 0>>
    /\ vol.thickness_grid.type = 3

\* C6: crop fails atomically.  Whenever crop_vol fails (an empty window, a volume
\* without thickness grid, a geometry that cannot be evaluated), the volume is
\* as it was before the call.
C6_AtomicFailure ==
    (Last[1] = "crop" /\ (~Last[2] \/ (window.ok /\ EmptyWindow(window))))
      => vol = before

\* Offset of entry k of the global header by the declared widths.
RECURSIVE DeclaredOffset(_)
DeclaredOffset(k) ==
    IF k = 1 THEN 0 ELSE DeclaredOffset(k - 1) + HeaderWriteLayout[k - 1][3]

\* Number of bytes the value s needs in the file.
BytesNeeded(s) == Len(Concat([i \in 1..Len(s) |-> Utf8(s[i])]))

\* C7: write_vol writes every string field of the header (version 12,
\* scan_position 4, id 16, reference_id 16, patient_id 21, visit_id 24 bytes)
\* as its declared number of bytes, the value padded with zero bytes on the
\* right, at the field's place in the header; when the value needs more bytes
\* than declared, write_vol raises and writes no byte beyond the field.
C7_FixedWidthStrings ==
    Last[1] = "write" =>
      \A k \in 1..Len(HeaderWriteLayout) :
         HeaderWriteLayout[k][2] = "str" =>
           IF BytesNeeded(vol.header[HeaderWriteLayout[k][1]]) > HeaderWriteLayout[k][3]
           THEN ~Last[2]
           ELSE Last[2] =>
                  SubSeq(written, DeclaredOffset(k) + 1,
                         DeclaredOffset(k) + HeaderWriteLayout[k][3])
                    = Concat([i \in 1..Len(vol.header[HeaderWriteLayout[k][1]]) |->
                                 Utf8(vol.header[HeaderWriteLayout[k][1]][i])])
                        \o Zeros(HeaderWriteLayout[k][3]
                                   - BytesNeeded(vol.header[HeaderWriteLayout[k][1]]))

\* Bytes of the thickness grid: type, 3 diameters, center_pos, 4 statistics and
\* 9 sectors of a thickness and a volume.
GridSize == 4 + 3 * 8 + 2 * 8 + 4 * 4 + NumSectors * 8

\* The length _open_vol reads up to in a file f of at least the 2048 bytes of the
\* header: the end of the SLO image, of every B-scan record and of the grid.
ReadEnd(h) ==
    Max(Max(HeaderSize + h.size_x_slo * h.size_y_slo,
            RecordOffset(h, Max(h.num_b_scans, 0))),
        IF h.grid_type = 0 THEN 0 ELSE h.grid_offset + GridSize)

\* C8: _open_vol rejects a truncated file.  When the file ends before the end of
\* something _open_vol reads (the global header, the SLO image, a B-scan record,
\* the thickness grid when grid_type is not 0), _open_vol raises; it never
\* returns a volume with short fields.
C8_TruncatedRejected ==
    /\ (log # <<>> /\ Len(file) < HeaderSize) => ~log[1][2]
    /\ (log # <<>> /\ Len(file) >= HeaderSize
          /\ Len(file) < ReadEnd(ReadFields(file, HeaderLayout, 1, 0, <<>>).val))
         => ~log[1][2]
    /\ (log # <<>> /\ log[1][2]) =>
         /\ Len(vol.header.padding) = 3
         /\ Len(vol.header.spare) = 1832

\* first = max(ceil(c2 / 2 - crop / (2 scale)), 1) and
\* last = min(floor(c2 / 2 + crop / (2 scale)), n), for scale > 0.
IsFirst(first, c2, scale, crop) ==
    /\ first >= 1
    /\ 2 * scale * first >= c2 * scale - crop
    /\ first = 1 \/ 2 * scale * (first - 1) < c2 * scale - crop
IsLast(last, c2, scale, crop, n) ==
    /\ last <= n
    /\ 2 * scale * last <= c2 * scale + crop
    /\ last = n \/ 2 * scale * (last + 1) > c2 * scale + crop

\* C9: the crop window.  With c_a = center2_a / 2 and c_b = center2_b / 2 the
\* window crop_vol keeps is first_a = max(ceil(c_a - crop_size / (2 scale_x)), 1),
\* last_a = min(floor(c_a + crop_size / (2 scale_x)), size_x), and first_b, last_b
\* likewise with distance and num_b_scans.  ceil and floor are stated by their
\* defining inequalities, multiplied by 2 scale > 0.  A volume of 10 x 10 scans
\* of 0.5 mm with the centre at A scan 5, B scan 5 cropped to 4 mm keeps A scans
\* 1..9.
C9_CropWindow ==
    (Last[1] = "crop" /\ window.ok) =>
      /\ IsFirst(window.first_a_scan, window.center2_a, F64Num(before.header.scale_x),
                 crop_size)
      /\ IsLast(window.last_a_scan, window.center2_a, F64Num(before.header.scale_x),
                crop_size, before.header.size_x)
      /\ IsFirst(window.first_b_scan, window.center2_b, F64Num(before.header.distance),
                 crop_size)
      /\ IsLast(window.last_b_scan, window.center2_b, F64Num(before.header.distance),
                crop_size, before.header.num_b_scans)
      /\ (Crops = 1 /\ before.header.size_x = 10 /\ before.header.num_b_scans = 10
            /\ F64Num(before.header.scale_x) = 2 /\ F64Num(before.header.distance) = 2
            /\ window.center2_a = 10 /\ window.center2_b = 10 /\ crop_size = 16)
           => (window.first_a_scan = 1 /\ window.last_a_scan = 9
                 /\ vol.header.size_x = 9)

\* The 10 x 10 volume cropped to 4 mm, and a window cut on both sides elsewhere.
C9_Witness ==
    /\ Cropped
    /\ Crops = 1
    /\ before.header.size_x = 10
    /\ window.center2_a = 10
    /\ crop_size = 16
    /\ window.first_a_scan = 1
    /\ window.last_a_scan = 9

\* C10: a cropped volume is a valid file of the format.  After crops that
\* returned and left scans, write_vol returns and puts size_x, num_b_scans and
\* grid_offset into the file as 4 bytes each at their places in a header of
\* 2048 bytes, and the file read again is equal to the cropped volume.
C10_CroppedFileValid ==
    (Crops >= 1 /\ \A j \in 1..Len(log) : log[j][1] = "crop" => log[j][2])
      => /\ vol.header.size_x >= 1 /\ vol.header.num_b_scans >= 1 /\ Last[1] = "write"
            => /\ Last[2]
               /\ SubSeq(written, DeclaredOffset(2) + 1, DeclaredOffset(2) + 4)
                    = IntBytes(vol.header.size_x, 4)
               /\ SubSeq(written, DeclaredOffset(3) + 1, DeclaredOffset(3) + 4)
                    = IntBytes(vol.header.num_b_scans, 4)
               /\ SubSeq(written, DeclaredOffset(28) + 1, DeclaredOffset(28) + 4)
                    = IntBytes(vol.header.grid_offset, 4)
               /\ SubSeq(written, DeclaredOffset(29) + 1, HeaderSize) = vol.header.spare
         /\ vol.header.size_x >= 1 /\ vol.header.num_b_scans >= 1 /\ Last[1] = "reopen"
            => (Last[2] /\ reread = vol)

\* The bytes of file f from offset pos (from 0) on, n of them.
At(f, pos, n) == SubSeq(f, pos + 1, pos + n)

\* C11: write_vol writes at the offsets _open_vol reads from.  After a
\* write_vol that returned, the file holds the SLO image at byte 2048, for
\* every record i in [0, num_b_scans) the fixed header at
\* base_i = 2048 + size_x_slo * size_y_slo + i * (b_scan_hdr_size + size_x * size_z * 4),
\* its boundaries at base_i + off_seg[i] in increasing order and its image at
\* base_i + b_scan_hdr_size, the thickness grid at grid_offset, and it is as
\* long as _open_vol reads with the same header.
C11_WriteMirrorsRead ==
    Last = <<"write", TRUE>> =>
      /\ At(written, HeaderSize, vol.header.size_x_slo * vol.header.size_y_slo)
           = Concat(vol.slo)
      /\ \A i \in 0..(vol.header.num_b_scans - 1) :
            /\ At(written, RecordOffset(vol.header, i),
                  Min(256, vol.b_scan_header.off_seg[i + 1]))
                 = SubSeq(BScanHeaderBytes(vol.b_scan_header, i + 1), 1,
                          Min(256, vol.b_scan_header.off_seg[i + 1]))
            /\ \A k \in 1..vol.b_scan_header.num_seg[i + 1] :
                  At(written,
                     RecordOffset(vol.header, i) + vol.b_scan_header.off_seg[i + 1]
                       + (k - 1) * vol.header.size_x * 4,
                     vol.header.size_x * 4)
                    = Concat(vol.b_scan_header.boundary[k][i + 1])
            /\ At(written, RecordOffset(vol.header, i) + vol.header.b_scan_hdr_size,
                  vol.header.size_x * vol.header.size_z * 4)
                 = Concat([z \in 1..Len(vol.b_scans[i + 1]) |->
                             Concat(vol.b_scans[i + 1][z])])
      /\ vol.header.grid_type # 0 =>
           At(written, vol.header.grid_offset, GridSize)
             = GridBytes(vol.thickness_grid)
      /\ Len(written) = ReadEnd(vol.header)

\* A written file of several records, with boundaries and a thickness grid.

\* The constructor and every crop_vol called so far returned.
AllReturned ==
    /\ log # <<>>
    /\ \A n \in 1..Len(log) : log[n][1] \in {"open", "crop"} => log[n][2]

\* The per-record fields of b_scan_header that crop_vol only slices.
SlicedFields == {"version", "b_scan_hdr_size", "num_seg", "off_seg", "quality", "shift", "spare"}

RecordFields == SlicedFields \cup {"start_x", "start_y", "end_x", "end_y"}

\* The arrays of v have the extents its header gives.
Shaped(v) ==
    LET h == v.header
        bh == v.b_scan_header
    IN  /\ Len(v.b_scans) = h.num_b_scans
        /\ \A i \in 1..Len(v.b_scans) :
              /\ Len(v.b_scans[i]) = h.size_z
              /\ \A z \in 1..Len(v.b_scans[i]) : Len(v.b_scans[i][z]) = h.size_x
        /\ \A k \in 1..Len(bh.boundary) :
              /\ Len(bh.boundary[k]) = h.num_b_scans
              /\ \A i \in 1..Len(bh.boundary[k]) : Len(bh.boundary[k][i]) = h.size_x
        /\ \A c \in RecordFields : Len(bh[c]) = h.num_b_scans

\* Entries first .. last (counted from 1) of a, in their order.
Entries(a, first, last) == [n \in 1..(last - first + 1) |-> a[first - 1 + n]]

\* v holds the entries of the window w of b, and nothing else.
Survivors(v, b, w) ==
    /\ v.b_scans =
          [i \in 1..(w.last_b_scan - w.first_b_scan + 1) |->
              [z \in 1..Len(b.b_scans[w.first_b_scan - 1 + i]) |->
                  Entries(b.b_scans[w.first_b_scan - 1 + i][z], w.first_a_scan, w.last_a_scan)]]
    /\ Len(v.b_scan_header.boundary) = Len(b.b_scan_header.boundary)
    /\ \A k \in 1..Len(b.b_scan_header.boundary) :
          v.b_scan_header.boundary[k] =
             [i \in 1..(w.last_b_scan - w.first_b_scan + 1) |->
                 Entries(b.b_scan_header.boundary[k][w.first_b_scan - 1 + i],
                         w.first_a_scan, w.last_a_scan)]
    /\ \A c \in SlicedFields :
          v.b_scan_header[c] = Entries(b.b_scan_header[c], w.first_b_scan, w.last_b_scan)

\* C12: after the constructor and after any sequence of crops that returned,
\* b_scans has the extents (size_z, size_x, num_b_scans) of the current header,
\* every boundary array has the extents (num_b_scans, size_x), every per-record
\* field of b_scan_header has num_b_scans entries, and after a crop the entries
\* kept are those of the window first_b_scan..last_b_scan by
\* first_a_scan..last_a_scan of the volume before it, in their order.
C12_Extents ==
    AllReturned =>
       /\ Shaped(vol)
       /\ Cropped => Survivors(vol, before, window)

\* Scan line of record i of v: its start, its end, the vector from the one to
\* the other and its length (the lines are axis parallel), in quarter millimetres.
ScanLine(v, i) ==
    LET bh == v.b_scan_header
        sx == F64Num(bh.start_x[i])
        sy == F64Num(bh.start_y[i])
        ex == F64Num(bh.end_x[i])
        ey == F64Num(bh.end_y[i])
    IN  [start_x |-> sx, start_y |-> sy, end_x |-> ex, end_y |-> ey,
         dx |-> ex - sx, dy |-> ey - sy, len |-> Abs(ex - sx) + Abs(ey - sy)]

\* Record j of v is record i of b with the start moved by head along the
\* direction (ux, uy) and the end moved by tail against it.
MovedBy(v, j, b, i, head, tail, ux, uy) ==
    LET new == ScanLine(v, j)
        old == ScanLine(b, i)
    IN  /\ new.start_x = old.start_x + head * ux
        /\ new.start_y = old.start_y + head * uy
        /\ new.end_x = old.end_x - tail * ux
        /\ new.end_y = old.end_y - tail * uy

\* The same with the direction taken from the scan line of record i of b itself,
\* which has the length len.
MovedAlong(v, j, b, i, head, tail) ==
    LET new == ScanLine(v, j)
        old == ScanLine(b, i)
    IN  /\ (new.start_x - old.start_x) * old.len = head * old.dx
        /\ (new.start_y - old.start_y) * old.len = head * old.dy
        /\ (new.end_x - old.end_x) * old.len = (0 - tail) * old.dx
        /\ (new.end_y - old.end_y) * old.len = (0 - tail) * old.dy

\* C13: after a crop that returned, every surviving record has its start point
\* moved by (first_a_scan - 1) * scale_x along the scan direction of the volume
\* (at a right angle to slo_volume_angle) and its end point moved by
\* (size_x - last_a_scan) * scale_x against it, with the size_x and the
\* coordinates of before the crop; where the record's line from start to end had
\* the length of size_x A scans, that direction is the one from its start to its
\* end; and when the window keeps every A scan, start_x, start_y, end_x and end_y
\* of the surviving records are unchanged.
C13_Coordinates ==
    Cropped =>
       LET h == before.header
           bh == before.b_scan_header
           scale_x == F64Num(h.scale_x)
           head == (window.first_a_scan - 1) * scale_x
           tail == (h.size_x - window.last_a_scan) * scale_x
       IN  \A j \in 1..Len(vol.b_scan_header.start_x) :
              LET i == window.first_b_scan - 1 + j
              IN  /\ MovedBy(vol, j, before, i, head, tail, window.sin, 0 - window.cos)
                  /\ (h.size_x >= 2 /\ ScanLine(before, i).len = (h.size_x - 1) * scale_x) =>
                        MovedAlong(vol, j, before, i, head, tail)
                  /\ (window.first_a_scan = 1 /\ window.last_a_scan = h.size_x) =>
                        /\ vol.b_scan_header.start_x[j] = bh.start_x[i]
                        /\ vol.b_scan_header.start_y[j] = bh.start_y[i]
                        /\ vol.b_scan_header.end_x[j] = bh.end_x[i]
                        /\ vol.b_scan_header.end_y[j] = bh.end_y[i]

C13_Witness ==
    /\ Cropped
    /\ window.first_a_scan > 1
    /\ window.last_a_scan < before.header.size_x
    /\ window.first_a_scan < window.last_a_scan
    /\ window.first_b_scan > 1
    /\ Len(vol.b_scan_header.start_x) >= 2
    /\ ScanLine(vol, 1).len = (vol.header.size_x - 1) * F64Num(vol.header.scale_x)
    /\ ScanLine(vol, 1).len < ScanLine(before, window.first_b_scan).len

\* The files whose records do not all report the count of boundary lines of the
\* first record.
UnevenFiles ==
    {InputFile(p) : p \in {q \in InputParams :
                              \E i \in 1..Len(q.nseg) : q.nseg[i] # q.nseg[1]}}

\* Row i of boundary array k of the volume v read from f holds the k-th line of
\* record i of f where the record reports that many lines, and is left as it
\* was allocated (nan) where it reports fewer.
BoundaryRead(v, f, k, i) ==
    LET h == v.header
        bh == v.b_scan_header
    IN  IF k <= bh.num_seg[i]
        THEN Concat(bh.boundary[k][i])
                = At(f, RecordOffset(h, i - 1) + bh.off_seg[i] + (k - 1) * h.size_x * 4,
                     h.size_x * 4)
        ELSE \A x \in 1..h.size_x : bh.boundary[k][i][x] = NaN32

\* C14: a volume as the constructor returns it has as many boundary arrays as
\* its first record reports lines, each with a row for every record, and row i
\* holds the num_seg[i] lines read for record i in their order; and on a file
\* whose later record reports another count than the first one, the
\* constructor, a crop_vol of the volume it returns and write_vol all return.
C14_BoundarySchema ==
    /\ Last = <<"open", TRUE>> =>
          LET h == vol.header
              bh == vol.b_scan_header
          IN  /\ Len(bh.boundary) = (IF h.num_b_scans >= 1 THEN bh.num_seg[1] ELSE 0)
              /\ \A k \in 1..Len(bh.boundary) :
                    /\ Len(bh.boundary[k]) = h.num_b_scans
                    /\ \A i \in 1..h.num_b_scans : BoundaryRead(vol, file, k, i)
    /\ (file \in UnevenFiles /\ Crops <= 1) =>
          \A n \in 1..Len(log) : log[n][1] \in {"open", "crop", "write"} => log[n][2]

\* The header fields crop_vol is to leave alone: sizes, scales, raw and derived
\* dates, identifiers and the spare bytes.
FrameFields ==
    {"size_z", "b_scan_hdr_size", "size_x_slo", "size_y_slo",
     "scale_x", "distance", "scale_z", "scale_x_slo", "scale_y_slo",
     "unconverted_exam_time", "unconverted_dob", "unconverted_visit_date",
     "exam_time", "dob", "visit_date",
     "id", "reference_id", "pid", "patient_id", "vid", "visit_id",
     "spare"}

\* C15: a crop that returned leaves the SLO image, size_z, b_scan_hdr_size,
\* size_x_slo, size_y_slo, the scale fields, the raw and the derived dates, the
\* identifiers, the header spare and center_pos of the thickness grid as they
\* were, and with a crop_size other than 6 mm the whole thickness grid.
C15_Frame ==
    Cropped =>
       /\ vol.slo = before.slo
       /\ \A f \in FrameFields : vol.header[f] = before.header[f]
       /\ vol.thickness_grid.center_pos = before.thickness_grid.center_pos
       /\ crop_size # SixMillimetres => vol.thickness_grid = before.thickness_grid

C15_Witness ==
    /\ Cropped
    /\ crop_size = 14
    /\ vol.header.size_x < before.header.size_x
    /\ vol.header.num_b_scans < before.header.num_b_scans
    /\ vol.header.grid_offset < before.header.grid_offset
    /\ Len(vol.slo) >= 1
    /\ Len(vol.header.spare) = 1832
    /\ vol.slo = before.slo
    /\ vol.thickness_grid = before.thickness_grid

\* A step that calls crop_vol with the crop_size of the crop_vol that returned
\* just before it.
CropAgain ==
    /\ Cropped
    /\ log' = Append(log, <<"crop", TRUE>>) \/ log' = Append(log, <<"crop", FALSE>>)
    /\ crop_size' = crop_size

\* C16: a crop_vol with the crop_size of the crop_vol before it returns, finds
\* the centre at the scan it was at less the scans trimmed before it, takes the
\* whole volume as its window, and leaves size_x, num_b_scans, grid_offset, the
\* B scans, the boundary lines, the per-record fields and the start and end
\* points as they were.
C16_CropIdempotent ==
    [][CropAgain =>
          /\ log' = Append(log, <<"crop", TRUE>>)
          /\ window'.center2_a = window.center2_a - 2 * (window.first_a_scan - 1)
          /\ window'.center2_b = window.center2_b - 2 * (window.first_b_scan - 1)
          /\ window'.first_a_scan = 1
          /\ window'.last_a_scan = vol.header.size_x
          /\ window'.first_b_scan = 1
          /\ window'.last_b_scan = vol.header.num_b_scans
          /\ vol'.header.size_x = vol.header.size_x
          /\ vol'.header.num_b_scans = vol.header.num_b_scans
          /\ vol'.header.grid_offset = vol.header.grid_offset
          /\ vol'.b_scans = vol.b_scans
          /\ vol'.b_scan_header = vol.b_scan_header]_vars

====
